---------------------------- MODULE Spec2Model ----------------------------
(***************************************************************************)
(* Model of the Game-Dev RAG assistant: the embedding build                *)
(* (rag-pipeline/embedder.py), the per-heading retriever                   *)
(* (rag-pipeline/retriever.py), the answer pipeline                        *)
(* (rag-pipeline/qa_chain.py) and the splitting of the cleaned text into   *)
(* chunks (rag-pipeline/loader.py).                                        *)
(*                                                                         *)
(* Text is a sequence of one-character strings, so that the string         *)
(* operations of the code (replace, strip, slicing, join, "in") are        *)
(* computed rather than assumed.  Times are in tenths of a second, scores  *)
(* in tenths.  An optional value (Python None or an object) is the empty   *)
(* sequence or a one-element sequence.                                     *)
(***************************************************************************)
EXTENDS Integers, Sequences, FiniteSets, TLC

VARIABLES
    \* ---- create_embeddings (embedder.py) ----
    docs,             \* the docs argument
    batch_size,       \* the batch_size argument
    i,                \* start of the current batch (range(0, len(docs), batch_size))
    attempt,          \* the retry loop's counter (range(5))
    embeddings_data,  \* the list of records built so far
    outFile,          \* content of the file at output_path: <<>> absent, <<data>> written
    epc,              \* "idle", "embedding", "returned", "raised"
    raisedErr,        \* the error text that left create_embeddings, if any
    callLog,          \* history: one entry per embed_documents call
    sleepLog,         \* history: one entry per time.sleep call
    lastSleep,        \* argument of the last time.sleep call, in tenths of a second
    \* ---- the index directories under base_faiss_dir ----
    disk,             \* path below base_faiss_dir -> what is stored there
    \* ---- RetrieverHandler (retriever.py) ----
    vectorstore,      \* self.vectorstore
    retriever,        \* self.retriever
    rop,              \* the last call of a RetrieverHandler method and how it ended
    lastOk,           \* history: the index read by the last load that succeeded
    \* ---- QAChain (qa_chain.py) ----
    score_threshold,  \* self.score_threshold
    qa,               \* the last answer_query call: its inputs, calls and result
    \* ---- DocumentHandler.load_and_split (loader.py) ----
    text,             \* the text read from the file
    token_limit,      \* the token_limit argument
    lines,            \* text.splitlines()
    lineNo,           \* the number of the line the first loop is at
    sections,         \* the sections built by the first loop
    current_heading,  \* the heading current in the first loop
    buffer,           \* the lines gathered since the last flush
    final_chunks,     \* the list of chunks built by the second loop
    secNo,            \* the number of the section the second loop is at
    lpc               \* "idle", "scan", "emit", "done"

buildVars == <<docs, batch_size, i, attempt, embeddings_data, outFile, epc,
               raisedErr, callLog, sleepLog, lastSleep>>
diskVars == <<disk>>
retrVars == <<vectorstore, retriever, rop, lastOk>>
qaVars == <<score_threshold, qa>>
loadVars == <<text, token_limit, lines, lineNo, sections, current_heading, buffer,
              final_chunks, secNo, lpc>>
vars == <<buildVars, diskVars, retrVars, qaVars, loadVars>>

---------------------------------------------------------------------------
(* Bounds of the model *)

MaxDocs == 3
MaxBatch == 2
MaxK == 5
MaxFullRank == 2
\* The longest text, in lines.
MaxLines == 3

---------------------------------------------------------------------------
(* Generic helpers *)

Min(a, b) == IF a < b THEN a ELSE b

RECURSIVE Pow2(_)
Pow2(n) == IF n = 0 THEN 1 ELSE 2 * Pow2(n - 1)

SeqsUpTo(S, n) == UNION {[1..m -> S] : m \in 0..n}

Some(x) == <<x>>
None == <<>>

\* Python's "sub in text" for text as character sequences.
Contains(str, sub) ==
    \E s \in 0..(Len(str) - Len(sub)) :
        \A j \in 1..Len(sub) : str[s + j] = sub[j]

---------------------------------------------------------------------------
(* Text and chunks used as inputs *)

HAB == <<"A", " ", "B">>
HA_B == <<"A", "_", "B">>
HC == <<"C">>
HSlash == <<"A", "/", "B">>
HBack == <<"A", "\\", "B">>

\* The chunks create_embeddings may be given (Document objects).
Chunks ==
    { [page_content |-> <<"a">>, heading |-> HAB],
      [page_content |-> <<"c">>, heading |-> HC] }

\* Error texts the embedding call may raise (str(e)).
ErrQuota == <<"4", "2", "9", " ", "q">>
ErrServer == <<"5", "0", "0">>
EmbedErrors == {ErrQuota, ErrServer}

\* random.random() in tenths of a second: the ends of [0, 1).
Jitters == {0, 9}

---------------------------------------------------------------------------
(* create_embeddings *)

MaxAttempts == 5

\* Every failure taken for a rate limit (a bare "except: sleep").
IsRateLimit_AnyError(err) == TRUE

\* "429" in str(e)
IsRateLimit(err) == Contains(err, <<"4", "2", "9">>)

\* "2 * attempt" for "2 ** attempt".
WaitTime_Linear(att, jit) == 10 * (2 * att) + jit

\* (2 ** attempt) + random.random(), in tenths of a second
WaitTime(att, jit) == 10 * Pow2(att) + jit

\* docs[i:i + batch_size]
BatchOf(d, start, bs) == SubSeq(d, start + 1, Min(start + bs, Len(d)))

\* What the embedding service answers for one text.
EmbedVec(content) == <<"vec", content>>

\* The records appended for a batch once embed_documents has answered.
BatchRecords(batch) ==
    [j \in 1..Len(batch) |->
        [content |-> batch[j].page_content,
         heading |-> batch[j].heading,
         embedding |-> EmbedVec(batch[j].page_content)]]

\* The retry loop of a batch is left (break, or range(5) used up): the batch
\* loop goes on with the next batch, or ends, and then the file is written
\* and the function returns.
LeaveBatch(data) ==
    /\ embeddings_data' = data
    /\ attempt' = 0
    /\ i' = i + batch_size
    /\ IF i + batch_size >= Len(docs)
       THEN /\ outFile' = Some(data)
            /\ epc' = "returned"
       ELSE /\ UNCHANGED outFile
            /\ epc' = "embedding"

\* After a rate-limit failure and its sleep: the next attempt of range(5),
\* or, when that was the last one, the end of the retry loop.
AfterRateLimit ==
    IF attempt + 1 < MaxAttempts
    THEN /\ attempt' = attempt + 1
         /\ UNCHANGED <<i, embeddings_data, outFile, epc>>
    ELSE LeaveBatch(embeddings_data)

\* The "break" left out: the batch is embedded again by the next attempt.
AfterSuccess_NoBreak(data) ==
    IF attempt + 1 < MaxAttempts
    THEN /\ embeddings_data' = data
         /\ attempt' = attempt + 1
         /\ UNCHANGED <<i, outFile, epc>>
    ELSE LeaveBatch(data)

\* After a successful embed_documents call: "break".
AfterSuccess(data) == LeaveBatch(data)

CreateEmbeddings(d, bs) ==
    /\ epc = "idle"
    /\ docs' = d
    /\ batch_size' = bs
    /\ i' = 0
    /\ attempt' = 0
    /\ embeddings_data' = <<>>
    /\ IF Len(d) = 0
       THEN /\ outFile' = Some(<<>>)
            /\ epc' = "returned"
       ELSE /\ UNCHANGED outFile
            /\ epc' = "embedding"
    /\ UNCHANGED <<raisedErr, callLog, sleepLog, lastSleep>>
    /\ UNCHANGED <<diskVars, retrVars, qaVars, loadVars>>

\* embed_documents answers: the records are appended and the retry loop broken.
EmbedOk ==
    /\ epc = "embedding"
    /\ callLog' = Append(callLog, [b |-> i, ok |-> TRUE, err |-> <<>>])
    /\ AfterSuccess(embeddings_data \o BatchRecords(BatchOf(docs, i, batch_size)))
    /\ UNCHANGED <<docs, batch_size, raisedErr, sleepLog, lastSleep>>
    /\ UNCHANGED <<diskVars, retrVars, qaVars, loadVars>>

\* embed_documents raises e with "429" in str(e): sleep, then go on.
EmbedRateLimited(err, jit) ==
    /\ epc = "embedding"
    /\ IsRateLimit(err)
    /\ callLog' = Append(callLog, [b |-> i, ok |-> FALSE, err |-> err])
    /\ sleepLog' = Append(sleepLog, [b |-> i, secs |-> WaitTime(attempt, jit) \div 10])
    /\ lastSleep' = WaitTime(attempt, jit)
    /\ AfterRateLimit
    /\ UNCHANGED <<docs, batch_size, raisedErr>>
    /\ UNCHANGED <<diskVars, retrVars, qaVars, loadVars>>

\* embed_documents raises anything else: re-raised.
EmbedFailed(err) ==
    /\ epc = "embedding"
    /\ ~IsRateLimit(err)
    /\ callLog' = Append(callLog, [b |-> i, ok |-> FALSE, err |-> err])
    /\ epc' = "raised"
    /\ raisedErr' = Some(err)
    /\ UNCHANGED <<docs, batch_size, i, attempt, embeddings_data, outFile,
                   sleepLog, lastSleep>>
    /\ UNCHANGED <<diskVars, retrVars, qaVars, loadVars>>

---------------------------------------------------------------------------
(* The directories below base_faiss_dir *)

\* The transform with the space left as it is.
SafeHeadingName_NoSpace(heading) ==
    [j \in 1..Len(heading) |->
        IF heading[j] \in {"/", "\\"} THEN "_" ELSE heading[j]]

\* heading.replace("/", "_").replace("\\", "_").replace(" ", "_")
SafeHeadingName(heading) ==
    [j \in 1..Len(heading) |->
        IF heading[j] \in {"/", "\\", " "} THEN "_" ELSE heading[j]]

\* os.path.join(self.base_faiss_dir, safe_heading), as the path below the base
\* directory; the empty path is the base directory itself.
HeadingDir(heading) == SafeHeadingName(heading)

BaseDir == <<>>

\* The heading strings a caller may pass to load_heading_index.
HD == <<"D">>
HE == <<"E">>
HeadingStrings == {HAB, HA_B, HSlash, HBack, HC, HD, HE, <<>>}

Dirs == {HeadingDir(h) : h \in HeadingStrings}

Absent == [kind |-> "absent", docs |-> <<>>]
EmptyDir == [kind |-> "dir", docs |-> <<>>]
IndexOf(data) == [kind |-> "index", docs |-> data]

\* vectorstore.save_local(faiss_dir): the directory is made, with its parents,
\* and the index files written into it.
SaveLocal(dk, dir, data) ==
    [d \in Dirs |->
        IF d = dir THEN IndexOf(data)
        ELSE IF d = BaseDir /\ dk[d].kind = "absent" THEN EmptyDir
        ELSE dk[d]]

\* store_in_faiss(embeddings_path, faiss_dir), reading the file create_embeddings
\* wrote: one index over every record of the file, saved at faiss_dir.
\* FAISS.from_embeddings raises on an empty list, and nothing is saved.
StoreInFaiss(faiss_dir) ==
    /\ outFile # None
    /\ disk' = IF outFile[1] = <<>> THEN disk
               ELSE SaveLocal(disk, faiss_dir, outFile[1])
    /\ UNCHANGED <<buildVars, retrVars, qaVars, loadVars>>

---------------------------------------------------------------------------
(* RetrieverHandler *)

\* The k of the retriever made by as_retriever() with no search_kwargs.
RetrieverK == 4

\* The directory handed to FAISS.load_local without looking for it first.
LoadOutcome_NoExistsCheck(heading) ==
    IF disk[HeadingDir(heading)].kind = "index" THEN "ok" ELSE "LoadError"

\* How load_heading_index(heading) ends: os.path.exists fails, FAISS.load_local
\* raises on a directory that holds no index, or the index is read.
LoadOutcome(heading) ==
    LET e == disk[HeadingDir(heading)]
    IN  IF e.kind = "absent" THEN "FileNotFoundError"
        ELSE IF e.kind = "index" THEN "ok"
        ELSE "LoadError"

\* FAISS.load_local(heading_dir, ...): the store object read from the directory.
LoadLocal(heading) ==
    [dir |-> HeadingDir(heading), docs |-> disk[HeadingDir(heading)].docs]

\* The store dropped before the directory is looked for.
VectorstoreAfterLoad_Cleared(heading) ==
    IF LoadOutcome(heading) = "ok" THEN Some(LoadLocal(heading)) ELSE None

\* The store read on the first load only and kept afterwards.
VectorstoreAfterLoad_KeepFirst(heading) ==
    IF LoadOutcome(heading) = "ok" /\ vectorstore = None
    THEN Some(LoadLocal(heading))
    ELSE vectorstore

\* self.vectorstore after load_heading_index(heading)
VectorstoreAfterLoad(heading) ==
    IF LoadOutcome(heading) = "ok" THEN Some(LoadLocal(heading)) ELSE vectorstore

\* The retriever made on the first load only.
RetrieverAfterLoad_Once(heading) ==
    IF LoadOutcome(heading) = "ok" /\ retriever = None
    THEN Some([vectorstore |-> LoadLocal(heading), k |-> RetrieverK])
    ELSE retriever

\* self.retriever after load_heading_index(heading): vectorstore.as_retriever()
RetrieverAfterLoad(heading) ==
    IF LoadOutcome(heading) = "ok"
    THEN Some([vectorstore |-> LoadLocal(heading), k |-> RetrieverK])
    ELSE retriever

\* The effect of load_heading_index(heading) on the RetrieverHandler.
LoadEffect(heading) ==
    /\ vectorstore' = VectorstoreAfterLoad(heading)
    /\ retriever' = RetrieverAfterLoad(heading)
    /\ lastOk' = IF LoadOutcome(heading) = "ok" THEN Some(LoadLocal(heading))
                 ELSE lastOk

Take(s, n) == SubSeq(s, 1, Min(n, Len(s)))

\* What the nearest-neighbour library may answer for a store: its documents in
\* some order of similarity, each with a score.
Scores == {2, 4, 9}
Perms(n) == {p \in [1..n -> 1..n] : \A a, b \in 1..n : p[a] = p[b] => a = b}
\* For a store of more than MaxFullRank documents only some of the answers are
\* tried: the stored order and its reverse, with one score for all or two
\* scores in turn.
Orders(n) ==
    IF n <= MaxFullRank THEN Perms(n)
    ELSE {[j \in 1..n |-> j], [j \in 1..n |-> n + 1 - j]}
ScoreLists(n) ==
    IF n <= MaxFullRank THEN [1..n -> Scores]
    ELSE {[j \in 1..n |-> s] : s \in Scores}
         \cup {[j \in 1..n |-> IF j % 2 = 1 THEN 9 ELSE 2]}
Rankings(store) ==
    LET n == Len(store.docs)
    IN  {[j \in 1..n |-> <<store.docs[p[j]], sc[j]>>] :
            p \in Orders(n), sc \in ScoreLists(n)}

DocsOf(pairs) == [j \in 1..Len(pairs) |-> pairs[j][1]]

\* The check of query left out.
QueryOutcomeFor_Unchecked(r) == "ok"

\* query: "if not self.retriever: raise RuntimeError"
QueryOutcomeFor(r) == IF r = None THEN "RuntimeError" ELSE "ok"
QueryOutcome == QueryOutcomeFor(retriever)

\* query_with_scores: "if not self.vectorstore: raise RuntimeError"
QueryWithScoresOutcomeFor(vs) == IF vs = None THEN "RuntimeError" ELSE "ok"
QueryWithScoresOutcome == QueryWithScoresOutcomeFor(vectorstore)

\* self.retriever.get_relevant_documents(query_text)[:k]
QueryValue(ranking, k) == Take(DocsOf(Take(ranking, retriever[1].k)), k)

\* Every scored pair the store ranks, whatever k is.
QueryWithScoresValue_All(ranking, k) == ranking

\* self.vectorstore.similarity_search_with_score(query_text, k=k)
QueryWithScoresValue(ranking, k) == Take(ranking, k)

LoadHeadingIndex(heading) ==
    /\ LoadEffect(heading)
    /\ rop' = [op |-> "load", arg |-> heading, k |-> 0,
               outcome |-> LoadOutcome(heading), value |-> <<>>, ranking |-> <<>>]
    /\ UNCHANGED <<buildVars, diskVars, qaVars, loadVars>>

\* query raises: its own RuntimeError, or, were the check passed with no
\* retriever, the AttributeError of None.get_relevant_documents.
QueryRaises(query_text, k) ==
    /\ QueryOutcome = "RuntimeError" \/ retriever = None
    /\ rop' = [op |-> "query", arg |-> query_text, k |-> k,
               outcome |-> IF QueryOutcome = "RuntimeError" THEN "RuntimeError"
                           ELSE "AttributeError",
               value |-> <<>>, ranking |-> <<>>]
    /\ UNCHANGED <<vectorstore, retriever, lastOk>>
    /\ UNCHANGED <<buildVars, diskVars, qaVars, loadVars>>

Query(query_text, k) ==
    /\ QueryOutcome = "ok"
    /\ retriever # None
    /\ \E ranking \in Rankings(retriever[1].vectorstore) :
          rop' = [op |-> "query", arg |-> query_text, k |-> k,
                  outcome |-> "ok", value |-> QueryValue(ranking, k),
                  ranking |-> ranking]
    /\ UNCHANGED <<vectorstore, retriever, lastOk>>
    /\ UNCHANGED <<buildVars, diskVars, qaVars, loadVars>>

\* query_with_scores raises, in the same two ways.
QueryWithScoresRaises(query_text, k) ==
    /\ QueryWithScoresOutcome = "RuntimeError" \/ vectorstore = None
    /\ rop' = [op |-> "query_with_scores", arg |-> query_text, k |-> k,
               outcome |-> IF QueryWithScoresOutcome = "RuntimeError"
                           THEN "RuntimeError" ELSE "AttributeError",
               value |-> <<>>, ranking |-> <<>>]
    /\ UNCHANGED <<vectorstore, retriever, lastOk>>
    /\ UNCHANGED <<buildVars, diskVars, qaVars, loadVars>>

QueryWithScores(query_text, k) ==
    /\ QueryWithScoresOutcome = "ok"
    /\ vectorstore # None
    /\ \E ranking \in Rankings(vectorstore[1]) :
          rop' = [op |-> "query_with_scores", arg |-> query_text, k |-> k,
                  outcome |-> "ok", value |-> QueryWithScoresValue(ranking, k),
                  ranking |-> ranking]
    /\ UNCHANGED <<vectorstore, retriever, lastOk>>
    /\ UNCHANGED <<buildVars, diskVars, qaVars, loadVars>>

---------------------------------------------------------------------------
(* QAChain *)

DefaultThreshold == 4
AnswerK == 8
SourceLen == 200

Whitespace == {" ", "\n", "\t"}

\* str.strip()
RECURSIVE LStrip(_)
LStrip(t) == IF t # <<>> /\ t[1] \in Whitespace THEN LStrip(Tail(t)) ELSE t
RECURSIVE RStrip(_)
RStrip(t) ==
    IF t # <<>> /\ t[Len(t)] \in Whitespace
    THEN RStrip(SubSeq(t, 1, Len(t) - 1)) ELSE t
Strip(t) == RStrip(LStrip(t))

\* select_heading: self.llm.invoke(prompt).content.strip()
SelectHeading(reply) == Strip(reply)

\* "score > threshold" for "score >= threshold".
RECURSIVE FilterByScore_Strict(_)
FilterByScore_Strict(pairs) ==
    IF pairs = <<>> THEN <<>>
    ELSE IF pairs[1][2] > score_threshold
         THEN <<pairs[1]>> \o FilterByScore_Strict(Tail(pairs))
         ELSE FilterByScore_Strict(Tail(pairs))

\* [(doc, score) for doc, score in docs_with_scores if score >= self.score_threshold]
RECURSIVE FilterByScore(_)
FilterByScore(pairs) ==
    IF pairs = <<>> THEN <<>>
    ELSE IF pairs[1][2] >= score_threshold
         THEN <<pairs[1]>> \o FilterByScore(Tail(pairs))
         ELSE FilterByScore(Tail(pairs))

\* "\n\n".join(doc.page_content for doc, _ in docs_with_scores)
RECURSIVE Context(_)
Context(pairs) ==
    IF pairs = <<>> THEN <<>>
    ELSE IF Len(pairs) = 1 THEN pairs[1][1].content
    ELSE pairs[1][1].content \o <<"\n", "\n">> \o Context(Tail(pairs))

\* [doc.page_content[:200] for doc, _ in docs_with_scores]
Sources(pairs) == [j \in 1..Len(pairs) |-> Take(pairs[j][1].content, SourceLen)]

NoIndexMsg == <<"No FAISS index found for this heading.">>
LowRelevanceMsg == <<"No relevant context found above score threshold.">>

\* selected is what select_heading returned, err the failure of the last call
\* made (none: ""), outcome how answer_query ended.
NoCall == [query |-> <<>>, calls |-> <<>>, outcome |-> "none", heading |-> <<>>,
           answer |-> <<>>, sources |-> <<>>, retrieved |-> <<>>, kept |-> <<>>,
           context |-> <<>>, err |-> "", selected |-> <<>>]

\* Every exception caught and turned into a result ("except Exception").
OutcomeOf_CatchAll(failure) == "returned"

\* How answer_query ends when its last call ended with failure: only the
\* FileNotFoundError of the load is caught.
OutcomeOf(failure) ==
    IF failure \in {"", "FileNotFoundError"} THEN "returned" ELSE "raised"

\* The filter's result tested as if it were never empty.
NothingKept_Never(kept) == FALSE

\* "if not docs_with_scores"
NothingKept(kept) == kept = <<>>

\* select_heading raises: nothing of the retriever is touched.
AnswerSelectFails(query) ==
    /\ qa' = [NoCall EXCEPT !.query = query, !.calls = <<"select">>,
                            !.outcome = OutcomeOf("SelectError"),
                            !.err = "SelectError"]
    /\ UNCHANGED <<score_threshold, retrVars, buildVars, diskVars, loadVars>>

\* load_heading_index raises FileNotFoundError: the fixed result is returned.
AnswerNoIndex(query, reply) ==
    LET chosen_heading == SelectHeading(reply)
    IN  /\ LoadOutcome(chosen_heading) = "FileNotFoundError"
        /\ LoadEffect(chosen_heading)
        /\ rop' = [op |-> "load", arg |-> chosen_heading, k |-> 0,
                   outcome |-> "FileNotFoundError", value |-> <<>>, ranking |-> <<>>]
        /\ qa' = [NoCall EXCEPT !.query = query, !.calls = <<"select", "load">>,
                                !.outcome = OutcomeOf("FileNotFoundError"),
                                !.err = "FileNotFoundError",
                                !.selected = chosen_heading,
                                !.heading = chosen_heading,
                                !.answer = NoIndexMsg]
        /\ UNCHANGED <<score_threshold, buildVars, diskVars, loadVars>>

\* load_heading_index raises something else: not caught.
AnswerLoadFails(query, reply) ==
    LET chosen_heading == SelectHeading(reply)
    IN  /\ LoadOutcome(chosen_heading) = "LoadError"
        /\ LoadEffect(chosen_heading)
        /\ rop' = [op |-> "load", arg |-> chosen_heading, k |-> 0,
                   outcome |-> "LoadError", value |-> <<>>, ranking |-> <<>>]
        /\ qa' = [NoCall EXCEPT !.query = query, !.calls = <<"select", "load">>,
                                !.outcome = OutcomeOf("LoadError"),
                                !.err = "LoadError",
                                !.selected = chosen_heading]
        /\ UNCHANGED <<score_threshold, buildVars, diskVars, loadVars>>

\* query_with_scores raises (its own RuntimeError, or the search fails).
AnswerSearchFails(query, reply) ==
    LET chosen_heading == SelectHeading(reply)
        vs == VectorstoreAfterLoad(chosen_heading)
        e == IF QueryWithScoresOutcomeFor(vs) = "ok" THEN "SearchError"
             ELSE "RuntimeError"
    IN  /\ LoadOutcome(chosen_heading) = "ok"
        /\ LoadEffect(chosen_heading)
        /\ rop' = [op |-> "query_with_scores", arg |-> query, k |-> AnswerK,
                   outcome |-> e, value |-> <<>>, ranking |-> <<>>]
        /\ qa' = [NoCall EXCEPT !.query = query,
                                !.calls = <<"select", "load", "search">>,
                                !.outcome = OutcomeOf(e), !.err = e,
                                !.selected = chosen_heading]
        /\ UNCHANGED <<score_threshold, buildVars, diskVars, loadVars>>

\* The rankings the search may answer with once reply's heading is loaded.
SearchAnswers(reply) ==
    LET vs == VectorstoreAfterLoad(SelectHeading(reply))
    IN  IF LoadOutcome(SelectHeading(reply)) = "ok" /\ vs # None
        THEN Rankings(vs[1])
        ELSE {}

\* The part of answer_query up to the filter, for a search that answers.
Searched(query, reply, ranking) ==
    LET chosen_heading == SelectHeading(reply)
        vs == VectorstoreAfterLoad(chosen_heading)
    IN  /\ LoadOutcome(chosen_heading) = "ok"
        /\ QueryWithScoresOutcomeFor(vs) = "ok"
        /\ LoadEffect(chosen_heading)
        /\ rop' = [op |-> "query_with_scores", arg |-> query, k |-> AnswerK,
                   outcome |-> "ok", value |-> QueryWithScoresValue(ranking, AnswerK),
                   ranking |-> ranking]
        /\ UNCHANGED <<score_threshold, buildVars, diskVars, loadVars>>

\* Nothing passes the filter: the fixed result is returned.
AnswerLowRelevance(query, reply) ==
    \E ranking \in SearchAnswers(reply) :
    LET retrieved == QueryWithScoresValue(ranking, AnswerK)
        kept == FilterByScore(retrieved)
    IN  /\ Searched(query, reply, ranking)
        /\ NothingKept(kept)
        /\ qa' = [NoCall EXCEPT !.query = query,
                                !.calls = <<"select", "load", "search">>,
                                !.outcome = OutcomeOf(""),
                                !.selected = SelectHeading(reply),
                                !.heading = SelectHeading(reply),
                                !.answer = LowRelevanceMsg,
                                !.retrieved = retrieved]

\* The generation call raises.
AnswerGenerateFails(query, reply) ==
    \E ranking \in SearchAnswers(reply) :
    LET retrieved == QueryWithScoresValue(ranking, AnswerK)
        kept == FilterByScore(retrieved)
    IN  /\ Searched(query, reply, ranking)
        /\ ~NothingKept(kept)
        /\ qa' = [NoCall EXCEPT !.query = query,
                                !.calls = <<"select", "load", "search", "generate">>,
                                !.outcome = OutcomeOf("GenerateError"),
                                !.err = "GenerateError",
                                !.selected = SelectHeading(reply),
                                !.retrieved = retrieved, !.kept = kept,
                                !.context = Context(kept)]

\* The whole pipeline.
AnswerOk(query, reply, gen) ==
    \E ranking \in SearchAnswers(reply) :
    LET retrieved == QueryWithScoresValue(ranking, AnswerK)
        kept == FilterByScore(retrieved)
    IN  /\ Searched(query, reply, ranking)
        /\ ~NothingKept(kept)
        /\ qa' = [NoCall EXCEPT !.query = query,
                                !.calls = <<"select", "load", "search", "generate">>,
                                !.outcome = OutcomeOf(""),
                                !.selected = SelectHeading(reply),
                                !.heading = SelectHeading(reply),
                                !.answer = Strip(gen),
                                !.sources = Sources(kept),
                                !.retrieved = retrieved, !.kept = kept,
                                !.context = Context(kept)]

---------------------------------------------------------------------------
(* DocumentHandler.load_and_split *)

UpperLetters == {"A", "B", "C", "D", "E", "F", "G", "H", "I", "J", "K", "L", "M",
                 "N", "O", "P", "Q", "R", "S", "T", "U", "V", "W", "X", "Y", "Z"}
LowerLetters == {"a", "b", "c", "d", "e", "f", "g", "h", "i", "j", "k", "l", "m",
                 "n", "o", "p", "q", "r", "s", "t", "u", "v", "w", "x", "y", "z"}
Digits == {"0", "1", "2", "3", "4", "5", "6", "7", "8", "9"}

\* The character class [A-Z0-9&\-\:\(\)\s] of the heading pattern.
HeadingClass == UpperLetters \cup Digits \cup {"&", "-", ":", "(", ")"} \cup Whitespace

\* The least number of characters the heading pattern asks for: {3,}
MinHeadingLen == 3

\* The least number of characters of [A-Z0-9] a heading line holds.
MinHeadingAlnum == 3

\* s != s.upper(): a string holding a lowercase letter changes under upper().
IsUpper(s) == \A j \in DOMAIN s : s[j] \notin LowerLetters

\* _is_heading_line(s)
IsHeadingLine(s) ==
    LET t == Strip(s)
    IN  /\ t # <<>>
        /\ Len(t) >= MinHeadingLen
        /\ \A j \in DOMAIN t : t[j] \in HeadingClass
        /\ IsUpper(t)
        /\ Len(SelectSeq(t, LAMBDA c : c \in UpperLetters \cup Digits))
              >= MinHeadingAlnum

\* The position of the first "\n" of text, 0 when it has none.
FirstNewline(t) ==
    IF \E j \in DOMAIN t : t[j] = "\n"
    THEN CHOOSE j \in DOMAIN t : t[j] = "\n" /\ \A m \in 1..(j - 1) : t[m] # "\n"
    ELSE 0

\* text.splitlines(): the lines without their line ends; a final line end
\* opens no further line, and the empty text has no line.
RECURSIVE SplitLines(_)
SplitLines(t) ==
    IF t = <<>> THEN <<>>
    ELSE IF FirstNewline(t) = 0 THEN <<t>>
    ELSE <<SubSeq(t, 1, FirstNewline(t) - 1)>>
         \o SplitLines(SubSeq(t, FirstNewline(t) + 1, Len(t)))

\* "\n".join(ls)
RECURSIVE JoinLines(_)
JoinLines(ls) ==
    IF ls = <<>> THEN <<>>
    ELSE IF Len(ls) = 1 THEN ls[1]
    ELSE ls[1] \o <<"\n">> \o JoinLines(Tail(ls))

\* "\n".join(buffer).strip(); each buffer entry is a line with its number.
BufferText(buf) == Strip(JoinLines([j \in 1..Len(buf) |-> buf[j].line]))

\* "if buffer: sections.append({heading, text})"; from is the numbers of the
\* lines the section was made of.
Flush(secs, heading, buf) ==
    IF buf # <<>>
    THEN Append(secs, [heading |-> heading, text |-> BufferText(buf),
                       from |-> [j \in 1..Len(buf) |-> buf[j].no]])
    ELSE secs

\* The heading line taken as it stands.
NextHeading_Untrimmed(line) == Some(line)

\* current_heading = line.strip()
NextHeading(line) == Some(Strip(line))

\* Every section emitted, its text empty or not.
KeepSection_All(content) == TRUE

\* "if not content: continue"
KeepSection(content) == content # <<>>

\* self._count_tokens(content): the encoder is a library; a text of n
\* characters of the model's alphabet has between 1 and n tokens, the empty
\* text none.
TokenCounts(content) == IF content = <<>> THEN {0} ELSE 1..Len(content)

\* s cut at the positions of cuts, the characters at the cuts dropped.
RECURSIVE CutAt(_, _)
CutAt(s, cuts) ==
    IF cuts = {} THEN <<s>>
    ELSE LET c == CHOOSE x \in cuts : \A y \in cuts : y <= x
         IN  CutAt(SubSeq(s, 1, c - 1), cuts \ {c}) \o <<SubSeq(s, c + 1, Len(s))>>

\* The pieces kept of a cut: each stripped, the empty ones dropped.
Pieces(s, cuts) ==
    SelectSeq([j \in 1..(Cardinality(cuts) + 1) |-> Strip(CutAt(s, cuts)[j])],
              LAMBDA p : p # <<>>)

\* splitter.create_documents([content]): the page contents of the documents.
\* The splitter is a library; what the model takes from it is that it cuts at
\* separators (here white space), strips each piece and drops empty pieces,
\* and returns the pieces in order.  Cut nowhere, at one place, or everywhere.
CreateDocuments(content) ==
    LET seps == {j \in DOMAIN content : content[j] \in Whitespace}
    IN  {Pieces(content, cuts) : cuts \in {{}, seps} \cup {{j} : j \in seps}}

\* final_chunks after the chunks of contents, all of section number sec with
\* heading heading, are appended.
AppendChunks(chunks, contents, heading, sec) ==
    chunks \o [j \in 1..Len(contents) |->
                  [content |-> contents[j], heading |-> heading, sec |-> sec]]

\* load_and_split(text_path, token_limit=limit) starts: the text is read and
\* cut into lines.
LoadAndSplit(t, limit) ==
    /\ lpc = "idle"
    /\ text' = t
    /\ token_limit' = limit
    /\ lines' = SplitLines(t)
    /\ lineNo' = 1
    /\ sections' = <<>>
    /\ current_heading' = None
    /\ buffer' = <<>>
    /\ final_chunks' = <<>>
    /\ secNo' = 0
    /\ lpc' = "scan"
    /\ UNCHANGED <<buildVars, diskVars, retrVars, qaVars>>

\* "for line in lines", a heading line: the buffer is flushed under the
\* heading current so far, then the heading changes.
ScanHeading ==
    /\ lpc = "scan"
    /\ lineNo <= Len(lines)
    /\ IsHeadingLine(lines[lineNo])
    /\ sections' = Flush(sections, current_heading, buffer)
    /\ buffer' = <<>>
    /\ current_heading' = NextHeading(lines[lineNo])
    /\ lineNo' = lineNo + 1
    /\ UNCHANGED <<text, token_limit, lines, final_chunks, secNo, lpc>>
    /\ UNCHANGED <<buildVars, diskVars, retrVars, qaVars>>

\* "for line in lines", any other line: buffer.append(line)
ScanBody ==
    /\ lpc = "scan"
    /\ lineNo <= Len(lines)
    /\ ~IsHeadingLine(lines[lineNo])
    /\ buffer' = Append(buffer, [no |-> lineNo, line |-> lines[lineNo]])
    /\ lineNo' = lineNo + 1
    /\ UNCHANGED <<text, token_limit, lines, sections, current_heading,
                   final_chunks, secNo, lpc>>
    /\ UNCHANGED <<buildVars, diskVars, retrVars, qaVars>>

\* After the loop: the last buffer is flushed, the buffer itself is left.
EndScan ==
    /\ lpc = "scan"
    /\ lineNo > Len(lines)
    /\ sections' = Flush(sections, current_heading, buffer)
    /\ secNo' = 1
    /\ lpc' = "emit"
    /\ UNCHANGED <<text, token_limit, lines, lineNo, current_heading, buffer,
                   final_chunks>>
    /\ UNCHANGED <<buildVars, diskVars, retrVars, qaVars>>

\* "for sec in sections", a section that is not kept: continue
EmitSkip ==
    /\ lpc = "emit"
    /\ secNo <= Len(sections)
    /\ ~KeepSection(sections[secNo].text)
    /\ secNo' = secNo + 1
    /\ UNCHANGED <<text, token_limit, lines, lineNo, sections, current_heading,
                   buffer, final_chunks, lpc>>
    /\ UNCHANGED <<buildVars, diskVars, retrVars, qaVars>>

\* "for sec in sections", a section within the token limit: one chunk.
EmitWhole(tokens) ==
    /\ lpc = "emit"
    /\ secNo <= Len(sections)
    /\ KeepSection(sections[secNo].text)
    /\ tokens \in TokenCounts(sections[secNo].text)
    /\ ~(tokens > token_limit)
    /\ final_chunks' = AppendChunks(final_chunks, <<sections[secNo].text>>,
                                    sections[secNo].heading, secNo)
    /\ secNo' = secNo + 1
    /\ UNCHANGED <<text, token_limit, lines, lineNo, sections, current_heading,
                   buffer, lpc>>
    /\ UNCHANGED <<buildVars, diskVars, retrVars, qaVars>>

\* "for sec in sections", a section over the token limit: one chunk per
\* document of the splitter.
EmitSplit(tokens) ==
    /\ lpc = "emit"
    /\ secNo <= Len(sections)
    /\ KeepSection(sections[secNo].text)
    /\ tokens \in TokenCounts(sections[secNo].text)
    /\ tokens > token_limit
    /\ \E contents \in CreateDocuments(sections[secNo].text) :
          final_chunks' = AppendChunks(final_chunks, contents,
                                       sections[secNo].heading, secNo)
    /\ secNo' = secNo + 1
    /\ UNCHANGED <<text, token_limit, lines, lineNo, sections, current_heading,
                   buffer, lpc>>
    /\ UNCHANGED <<buildVars, diskVars, retrVars, qaVars>>

\* The chunks are written and returned.
ReturnChunks ==
    /\ lpc = "emit"
    /\ secNo > Len(sections)
    /\ lpc' = "done"
    /\ UNCHANGED <<text, token_limit, lines, lineNo, sections, current_heading,
                   buffer, final_chunks, secNo>>
    /\ UNCHANGED <<buildVars, diskVars, retrVars, qaVars>>

---------------------------------------------------------------------------
(* Inputs of the retriever and of the pipeline *)

Queries == {<<"q">>}
Ks == {1, MaxK}
SelectReplies == {HAB, HA_B, <<" ", "C", "\n">>, HD, HE, <<>>}
GenReplies == {<<" ", "o", "k", "\n">>, <<"n", "o">>}
Thresholds == {DefaultThreshold, 9}

Text200 == [j \in 1..SourceLen |-> "x"]
Text201 == [j \in 1..(SourceLen + 1) |-> "y"]

Rec(content, heading) ==
    [content |-> content, heading |-> heading, embedding |-> EmbedVec(content)]

IdxAB == <<Rec(<<"a">>, HAB), Rec(Text201, HAB)>>
IdxC == <<Rec(Text200, HC)>>
\* An index of more documents than answer_query asks for.
IdxE == [j \in 1..(AnswerK + 1) |-> Rec(<<"e", j>>, HE)]

\* What the base directory may hold when a RetrieverHandler is made.
DiskInits ==
    {f \in [Dirs -> {Absent, EmptyDir, IndexOf(IdxAB), IndexOf(IdxC), IndexOf(IdxE)}] :
        /\ f[HeadingDir(HAB)] \in {Absent, IndexOf(IdxAB)}
        /\ f[HeadingDir(HC)] \in {Absent, EmptyDir, IndexOf(IdxC)}
        /\ f[HeadingDir(HD)] = Absent
        /\ f[HeadingDir(HE)] \in {Absent, IndexOf(IdxE)}
        /\ f[BaseDir] \in {Absent, EmptyDir}
        /\ f[BaseDir] = Absent => \A d \in Dirs : f[d] = Absent}

\* The lines a cleaned text is made of: a heading, a heading with blanks
\* around it, a line of the heading pattern with too few letters and digits, a
\* body line of one word, one of two words, an empty line and a blank line.
LineStrings == {<<"A", "B", "C">>, <<" ", "A", "B", "1", " ">>, <<"A", "-", "B">>,
                <<"x">>, <<"y", " ", "z">>, <<>>, <<" ">>}

\* The texts load_and_split reads.
Texts == {JoinLines(ls) : ls \in SeqsUpTo(LineStrings, MaxLines)}

\* The default of the token_limit parameter.
DefaultTokenLimit == 512

\* The token_limit arguments: a small one, so that sections are split, and the
\* default.
TokenLimits == {2, DefaultTokenLimit}

\* The longest text of the model, in characters, hence in tokens.
MaxTokens == 6 * MaxLines

---------------------------------------------------------------------------
(* Initial states and specifications *)

BuildInit ==
    /\ docs = <<>>
    /\ batch_size = 1
    /\ i = 0
    /\ attempt = 0
    /\ embeddings_data = <<>>
    /\ outFile = None
    /\ epc = "idle"
    /\ raisedErr = None
    /\ callLog = <<>>
    /\ sleepLog = <<>>
    /\ lastSleep = 0

\* RetrieverHandler.__init__
RetrInit ==
    /\ vectorstore = None
    /\ retriever = None
    /\ rop = [op |-> "init", arg |-> <<>>, k |-> 0, outcome |-> "ok", value |-> <<>>,
              ranking |-> <<>>]
    /\ lastOk = None

\* QAChain.__init__
QAInit ==
    /\ score_threshold \in Thresholds
    /\ qa = NoCall

\* load_and_split not called yet.
LoadInit ==
    /\ text = <<>>
    /\ token_limit = DefaultTokenLimit
    /\ lines = <<>>
    /\ lineNo = 0
    /\ sections = <<>>
    /\ current_heading = None
    /\ buffer = <<>>
    /\ final_chunks = <<>>
    /\ secNo = 0
    /\ lpc = "idle"

\* The build: create_embeddings, then store_in_faiss, into an empty base directory.
InitBuild ==
    /\ BuildInit
    /\ disk = [d \in Dirs |-> Absent]
    /\ RetrInit
    /\ score_threshold = DefaultThreshold
    /\ qa = NoCall
    /\ LoadInit

NextBuild ==
    \/ \E d \in SeqsUpTo(Chunks, MaxDocs), bs \in 1..MaxBatch : CreateEmbeddings(d, bs)
    \/ EmbedOk
    \/ \E err \in EmbedErrors, jit \in Jitters : EmbedRateLimited(err, jit)
    \/ \E err \in EmbedErrors : EmbedFailed(err)

EmbedStep ==
    \/ EmbedOk
    \/ \E err \in EmbedErrors, jit \in Jitters : EmbedRateLimited(err, jit)
    \/ \E err \in EmbedErrors : EmbedFailed(err)

SpecBuild == InitBuild /\ [][NextBuild]_vars /\ WF_vars(EmbedStep)

\* store_in_faiss, called any number of times on the embeddings file that an
\* earlier run of create_embeddings left, into a base directory that starts
\* empty.
EmbeddingFiles ==
    {BatchRecords(d) :
        d \in SeqsUpTo(Chunks \cup {[page_content |-> <<"b">>, heading |-> HAB]},
                       MaxDocs)}

InitStore ==
    /\ docs = <<>>
    /\ batch_size = 1
    /\ i = 0
    /\ attempt = 0
    /\ embeddings_data = <<>>
    /\ outFile \in {Some(data) : data \in EmbeddingFiles}
    /\ epc = "idle"
    /\ raisedErr = None
    /\ callLog = <<>>
    /\ sleepLog = <<>>
    /\ lastSleep = 0
    /\ disk = [d \in Dirs |-> Absent]
    /\ RetrInit
    /\ score_threshold = DefaultThreshold
    /\ qa = NoCall
    /\ LoadInit

NextStore == \E dir \in Dirs : StoreInFaiss(dir)

SpecStore == InitStore /\ [][NextStore]_vars

\* The methods of a RetrieverHandler, called in any order.
InitRetr ==
    /\ BuildInit
    /\ disk \in DiskInits
    /\ RetrInit
    /\ score_threshold = DefaultThreshold
    /\ qa = NoCall
    /\ LoadInit

NextRetr ==
    \/ \E h \in HeadingStrings : LoadHeadingIndex(h)
    \/ \E q \in Queries, k \in Ks : QueryRaises(q, k)
    \/ \E q \in Queries, k \in Ks : Query(q, k)
    \/ \E q \in Queries, k \in Ks : QueryWithScoresRaises(q, k)
    \/ \E q \in Queries, k \in Ks : QueryWithScores(q, k)

SpecRetr == InitRetr /\ [][NextRetr]_vars

\* A QAChain answering queries one after the other.
InitQA ==
    /\ BuildInit
    /\ disk \in DiskInits
    /\ RetrInit
    /\ QAInit
    /\ LoadInit

NextQA ==
    \/ \E q \in Queries : AnswerSelectFails(q)
    \/ \E q \in Queries, r \in SelectReplies : AnswerNoIndex(q, r)
    \/ \E q \in Queries, r \in SelectReplies : AnswerLoadFails(q, r)
    \/ \E q \in Queries, r \in SelectReplies : AnswerSearchFails(q, r)
    \/ \E q \in Queries, r \in SelectReplies : AnswerLowRelevance(q, r)
    \/ \E q \in Queries, r \in SelectReplies : AnswerGenerateFails(q, r)
    \/ \E q \in Queries, r \in SelectReplies, g \in GenReplies : AnswerOk(q, r, g)

SpecQA == InitQA /\ [][NextQA]_vars

\* The splitting of a cleaned text.
InitLoad ==
    /\ BuildInit
    /\ disk = [d \in Dirs |-> Absent]
    /\ RetrInit
    /\ score_threshold = DefaultThreshold
    /\ qa = NoCall
    /\ LoadInit

NextLoad ==
    \/ \E t \in Texts, limit \in TokenLimits : LoadAndSplit(t, limit)
    \/ ScanHeading
    \/ ScanBody
    \/ EndScan
    \/ EmitSkip
    \/ \E tokens \in 0..MaxTokens : EmitWhole(tokens)
    \/ \E tokens \in 0..MaxTokens : EmitSplit(tokens)
    \/ ReturnChunks

SpecLoad == InitLoad /\ [][NextLoad]_vars

---------------------------------------------------------------------------
(* Properties of create_embeddings, checked under SpecBuild *)

\* The rate-limit signal of the embedding service: "429" in the error text.
RateLimitSignal(err) == Contains(err, <<"4", "2", "9">>)

\* The batch starts of the current call: range(0, len(docs), batch_size).
BatchStarts == {b \in 0..(Len(docs) - 1) : b % batch_size = 0}

CallsFor(b) == {j \in DOMAIN callLog : callLog[j].b = b}
OkCallsFor(b) == {j \in CallsFor(b) : callLog[j].ok}
RateLimitedFor(b) ==
    {j \in CallsFor(b) : ~callLog[j].ok /\ RateLimitSignal(callLog[j].err)}
SleepsFor(b) == {j \in DOMAIN sleepLog : sleepLog[j].b = b}

\* The records of every document of the input, in input order.
RecordsOfInput ==
    [j \in 1..Len(docs) |->
        [content |-> docs[j].page_content, heading |-> docs[j].heading,
         embedding |-> EmbedVec(docs[j].page_content)]]

\* The records of the batches that were embedded, in input order.
RECURSIVE RecordsOfEmbedded(_)
RecordsOfEmbedded(b) ==
    IF b >= Len(docs) THEN <<>>
    ELSE (IF OkCallsFor(b) # {}
          THEN SubSeq(RecordsOfInput, b + 1, Min(b + batch_size, Len(docs)))
          ELSE <<>>) \o RecordsOfEmbedded(b + batch_size)

\* C1: a batch whose call was rate-limited on all 5 attempts ends the build
\* with that error: create_embeddings raises it, and neither goes on to the
\* next batch nor returns.
C1_ExhaustedBatchRaises ==
    \A b \in BatchStarts :
        Cardinality(RateLimitedFor(b)) = 5 =>
            /\ epc = "raised"
            /\ raisedErr # None
            /\ RateLimitSignal(raisedErr[1])

\* C2: when create_embeddings has returned, the file holds exactly one record
\* for each input chunk, in input order, with that chunk's content and heading.
C2_FileHoldsEveryChunk ==
    epc = "returned" => outFile = Some(RecordsOfInput)

\* C3: a batch that was rate-limited n < 5 times and then embedded has its
\* records in the result exactly once, at its place, was embedded by one call,
\* and was slept for exactly n times.
C3_RetriedBatchComplete ==
    /\ embeddings_data = RecordsOfEmbedded(0)
    /\ \A b \in BatchStarts :
          OkCallsFor(b) # {} =>
              /\ Cardinality(OkCallsFor(b)) = 1
              /\ Cardinality(RateLimitedFor(b)) < 5
              /\ Cardinality(CallsFor(b)) = Cardinality(RateLimitedFor(b)) + 1
              /\ Cardinality(SleepsFor(b)) = Cardinality(RateLimitedFor(b))

\* Two failures, then success, in a batch of two documents: both records are
\* there and two sleeps were made.
C3_Witness ==
    /\ epc = "returned"
    /\ batch_size = 2
    /\ Len(docs) >= 2
    /\ OkCallsFor(0) # {}
    /\ Cardinality(RateLimitedFor(0)) = 2
    /\ Cardinality(SleepsFor(0)) = 2
    /\ SubSeq(outFile[1], 1, 2) = SubSeq(RecordsOfInput, 1, 2)

\* C4: a failure that is not the rate-limit signal is the last thing the call
\* does: it is raised as it is, no sleep and no embedding call follows it, and
\* the output file is not written.
C4_OtherFailurePropagates ==
    \A j \in DOMAIN callLog :
        (~callLog[j].ok /\ ~RateLimitSignal(callLog[j].err)) =>
            /\ j = Len(callLog)
            /\ epc = "raised"
            /\ raisedErr = Some(callLog[j].err)
            /\ outFile = None
            /\ Len(sleepLog) =
                 Cardinality({m \in 1..(j - 1) :
                     ~callLog[m].ok /\ RateLimitSignal(callLog[m].err)})

\* A server error in the second batch, after a retry in the first.
C4_Witness ==
    /\ epc = "raised"
    /\ raisedErr = Some(ErrServer)
    /\ i > 0
    /\ embeddings_data # <<>>
    /\ sleepLog # <<>>

\* ceil(n / b)
CeilDiv(n, b) == (n + b - 1) \div b

\* The sleeps of batch b among the first j sleeps.
SleepsBefore(b, j) == {m \in 1..j : sleepLog[m].b = b}

C5_Bounded ==
    /\ \A b \in BatchStarts : Cardinality(CallsFor(b)) <= 5
    /\ Len(callLog) <= 5 * CeilDiv(Len(docs), batch_size)
    /\ \A b \in BatchStarts :
          Cardinality(SleepsFor(b)) = Cardinality(RateLimitedFor(b))
    /\ \A j \in DOMAIN sleepLog :
          sleepLog[j].secs = Pow2(Cardinality(SleepsBefore(sleepLog[j].b, j)) - 1)
    /\ sleepLog # <<>> =>
          /\ lastSleep >= 10 * sleepLog[Len(sleepLog)].secs
          /\ lastSleep < 10 * sleepLog[Len(sleepLog)].secs + 10

\* C5: at most 5 embedding calls are made for a batch and 5 * ceil(n / b) in
\* all, the call ends (it returns or raises) whatever the service answers, and
\* the k-th sleep of a batch, made after its k-th failure, lasts 2^(k-1) seconds
\* plus a jitter in [0, 1).
C5_BoundedRetries ==
    /\ []C5_Bounded
    /\ (epc = "embedding") ~> (epc \in {"returned", "raised"})

\* A batch that used all its attempts, with a sleep of 8 seconds among them.
C5_Witness ==
    /\ epc = "returned"
    /\ \E b \in BatchStarts : Cardinality(CallsFor(b)) = 5
    /\ \E j \in DOMAIN sleepLog : sleepLog[j].secs = 8

---------------------------------------------------------------------------
(* Properties of store_in_faiss, checked under SpecStore *)

HeadingsOf(data) == {data[j].heading : j \in DOMAIN data}

RECURSIVE RecordsWithHeading(_, _)
RecordsWithHeading(data, h) ==
    IF data = <<>> THEN <<>>
    ELSE (IF data[1].heading = h THEN <<data[1]>> ELSE <<>>)
         \o RecordsWithHeading(Tail(data), h)

\* C6: the index kept in the directory of a heading of the embedding records
\* holds exactly the records of that heading, and none of another heading.
C6_IndexPerHeading ==
    \A h \in HeadingsOf(outFile[1]) :
        disk[HeadingDir(h)].kind = "index" =>
            disk[HeadingDir(h)].docs = RecordsWithHeading(outFile[1], h)

---------------------------------------------------------------------------
(* Properties of RetrieverHandler, checked under SpecRetr *)

Range(f) == {f[x] : x \in DOMAIN f}

\* C7: load_heading_index for a heading whose directory does not exist raises
\* FileNotFoundError and changes neither self.vectorstore nor self.retriever.
C7_FailedLoadKeepsIndex ==
    [][(rop'.op = "load" /\ disk[HeadingDir(rop'.arg)].kind = "absent") =>
          /\ rop'.outcome = "FileNotFoundError"
          /\ vectorstore' = vectorstore
          /\ retriever' = retriever]_vars

\* A load that failed while an index was loaded, which is still loaded.
C7_Witness ==
    /\ rop.op = "load"
    /\ rop.outcome = "FileNotFoundError"
    /\ vectorstore # None
    /\ retriever # None

\* C8: while no load has succeeded, query and query_with_scores raise
\* RuntimeError and return nothing.
C8_NotLoadedRaises ==
    (rop.op \in {"query", "query_with_scores"} /\ lastOk = None) =>
        /\ rop.outcome = "RuntimeError"
        /\ rop.value = <<>>

C8_Witness ==
    /\ rop.op = "query"
    /\ rop.outcome = "RuntimeError"
    /\ lastOk = None
    /\ \E d \in Dirs : disk[d].kind = "index"

\* C9: self.vectorstore and self.retriever are both unset, or both are the index
\* read by the last load that succeeded, and what query and query_with_scores
\* return are documents of that index.
C9_OneIndexLoaded ==
    /\ \/ vectorstore = None /\ retriever = None /\ lastOk = None
       \/ /\ vectorstore # None /\ retriever # None
          /\ vectorstore = lastOk
          /\ retriever[1].vectorstore = lastOk[1]
    /\ (rop.op = "query" /\ rop.outcome = "ok") =>
          Range(rop.value) \subseteq Range(lastOk[1].docs)
    /\ (rop.op = "query_with_scores" /\ rop.outcome = "ok") =>
          \A p \in Range(rop.value) : p[1] \in Range(lastOk[1].docs)

\* A query answered from the index of "C" where the index of "A B" is on disk too.
C9_Witness ==
    /\ rop.op = "query"
    /\ rop.outcome = "ok"
    /\ rop.value # <<>>
    /\ lastOk = Some([dir |-> HeadingDir(HC), docs |-> IdxC])
    /\ disk[HeadingDir(HAB)].kind = "index"

\* C15: query(text, k) on a loaded Retriever returns the k most similar chunks
\* of the loaded index, all of them when the index holds fewer than k: the
\* chunks query_with_scores(text, k) returns, in the same order, without the
\* scores.
C15_QueryReturnsTopK ==
    (rop.op = "query" /\ rop.outcome = "ok") =>
        rop.value = DocsOf(QueryWithScoresValue(rop.ranking, rop.k))

\* The directory, below the base directory, that each heading string of the
\* model is stored under according to the claim: 'A B', 'A_B', 'A/B' and 'A\B'
\* share one, every other heading has its own name.
ClaimedDir(heading) ==
    IF heading \in {<<"A", " ", "B">>, <<"A", "_", "B">>,
                    <<"A", "/", "B">>, <<"A", "\\", "B">>}
    THEN <<"A", "_", "B">>
    ELSE heading

\* C19: the heading-to-directory transform replaces only '/', '\' and ' ' by
\* '_' and is not injective: headings that sanitize to the same name resolve to
\* the same directory, so load_heading_index for any of them succeeds exactly
\* when that directory holds an index, and loads that index, whichever of the
\* headings it was stored for.
C19_CollidingHeadingsShareIndex ==
    rop.op = "load" =>
        /\ rop.outcome = "ok" <=> disk[ClaimedDir(rop.arg)].kind = "index"
        /\ rop.outcome = "ok" =>
              vectorstore = Some([dir |-> ClaimedDir(rop.arg),
                                  docs |-> disk[ClaimedDir(rop.arg)].docs])

\* load_heading_index('A_B') succeeded and loaded chunks stored under 'A B'.
C19_Witness ==
    /\ rop.op = "load"
    /\ rop.arg = <<"A", "_", "B">>
    /\ rop.outcome = "ok"
    /\ vectorstore # None
    /\ \A j \in DOMAIN vectorstore[1].docs :
          vectorstore[1].docs[j].heading = <<"A", " ", "B">>

---------------------------------------------------------------------------
(* Properties of QAChain.answer_query, checked under SpecQA *)

IsPrefix(a, b) == Len(a) <= Len(b) /\ \A j \in 1..Len(a) : a[j] = b[j]

\* C10: the chunks used by answer_query are exactly the retrieved ones whose
\* score is at least the threshold (a score equal to it is kept): the sources
\* are their contents cut at 200 characters, and the context sent to the
\* generation call is made of their contents and nothing else.
C10_OnlyAboveThreshold ==
    "generate" \in Range(qa.calls) =>
        /\ qa.kept = SelectSeq(qa.retrieved, LAMBDA p : p[2] >= score_threshold)
        /\ \A p \in Range(qa.kept) : p[2] >= score_threshold
        /\ qa.context = Context(qa.kept)
        /\ qa.outcome = "returned" =>
              /\ Len(qa.sources) = Len(qa.kept)
              /\ \A j \in DOMAIN qa.sources :
                    /\ IsPrefix(qa.sources[j], qa.kept[j][1].content)
                    /\ Len(qa.sources[j]) = Min(200, Len(qa.kept[j][1].content))

\* One chunk at the threshold is kept, one below it is dropped.
C10_Witness ==
    /\ qa.outcome = "returned"
    /\ Len(qa.retrieved) = 2
    /\ Len(qa.kept) = 1
    /\ qa.kept[1][2] = score_threshold
    /\ Len(qa.sources) = 1

\* C11: whatever string the heading selection returned, when no directory
\* exists for it the call returns normally: the heading is that string, the
\* sources are empty, the answer is the fixed no-index message, and neither the
\* similarity search nor the generation call was made.
C11_NoIndexResult ==
    (Len(qa.calls) >= 2 /\ disk[HeadingDir(qa.selected)].kind = "absent") =>
        /\ qa.outcome = "returned"
        /\ qa.heading = qa.selected
        /\ qa.sources = <<>>
        /\ qa.answer = NoIndexMsg
        /\ qa.calls = <<"select", "load">>
        /\ rop.op = "load"
        /\ rop.outcome = "FileNotFoundError"

\* The selection returned a heading nothing was ever stored for.
C11_Witness ==
    /\ qa.selected = HD
    /\ disk[HeadingDir(HD)].kind = "absent"
    /\ disk[BaseDir].kind = "dir"
    /\ qa.outcome = "returned"
    /\ qa.answer = NoIndexMsg

\* The similarity search of the call answered (it was made and did not fail).
SearchAnswered ==
    /\ Len(qa.calls) >= 3
    /\ ~(Len(qa.calls) = 3 /\ qa.err # "")

\* C12: when the index was loaded and no retrieved chunk scores at least the
\* threshold, the call returns the selected heading, no sources and the fixed
\* low-relevance message, and the generation call is not made.
C12_LowRelevanceResult ==
    (SearchAnswered /\ \A p \in Range(qa.retrieved) : p[2] < score_threshold) =>
        /\ qa.outcome = "returned"
        /\ qa.heading = qa.selected
        /\ qa.sources = <<>>
        /\ qa.answer = LowRelevanceMsg
        /\ qa.calls = <<"select", "load", "search">>

\* Chunks were retrieved and every one of them scores below the threshold.
C12_Witness ==
    /\ SearchAnswered
    /\ Len(qa.retrieved) >= 2
    /\ \A p \in Range(qa.retrieved) : p[2] < score_threshold
    /\ qa.answer = LowRelevanceMsg
    /\ qa.sources = <<>>

\* What answer_query(query) gives on a QAChain that has answered nothing before,
\* from the call's own inputs only: the heading the selection chose, the
\* failure (if any) of the call that ended it, the ranking the search answered
\* with, the text the generation answered with, and the directories on disk.
\* Neither self.retriever.vectorstore nor self.retriever.retriever is read.
FreshAnswer(query, chosen_heading, failure, ranking, gen) ==
    LET retrieved == Take(ranking, AnswerK)
        kept == FilterByScore(retrieved)
        call == [NoCall EXCEPT !.query = query, !.err = failure,
                               !.outcome = OutcomeOf(failure)]
        chose == [call EXCEPT !.selected = chosen_heading]
    IN  IF failure = "SelectError"
        THEN [call EXCEPT !.calls = <<"select">>]
        ELSE IF LoadOutcome(chosen_heading) = "FileNotFoundError"
        THEN [chose EXCEPT !.calls = <<"select", "load">>,
                           !.heading = chosen_heading, !.answer = NoIndexMsg]
        ELSE IF LoadOutcome(chosen_heading) # "ok"
        THEN [chose EXCEPT !.calls = <<"select", "load">>]
        ELSE IF failure \in {"SearchError", "RuntimeError"}
        THEN [chose EXCEPT !.calls = <<"select", "load", "search">>]
        ELSE IF NothingKept(kept)
        THEN [chose EXCEPT !.calls = <<"select", "load", "search">>,
                           !.heading = chosen_heading,
                           !.answer = LowRelevanceMsg, !.retrieved = retrieved]
        ELSE IF failure = "GenerateError"
        THEN [chose EXCEPT !.calls = <<"select", "load", "search", "generate">>,
                           !.retrieved = retrieved, !.kept = kept,
                           !.context = Context(kept)]
        ELSE [chose EXCEPT !.calls = <<"select", "load", "search", "generate">>,
                           !.heading = chosen_heading, !.answer = Strip(gen),
                           !.sources = Sources(kept),
                           !.retrieved = retrieved, !.kept = kept,
                           !.context = Context(kept)]

\* C13: a call of answer_query does not depend on the calls made before it on
\* the same QAChain: its result is the one a QAChain that answered nothing
\* before gives for the same query, the same external responses and the same
\* directories; the search it made ranked the documents of the index stored
\* for the heading it selected, and a call whose load failed has no sources
\* and no retrieved chunk, whatever index an earlier call had loaded.
C13_CallsIndependent ==
    qa # NoCall =>
        /\ \E gen \in GenReplies :
              qa = FreshAnswer(qa.query, qa.selected, qa.err, rop.ranking, gen)
        /\ SearchAnswered => rop.ranking \in Rankings(LoadLocal(qa.selected))
        /\ SearchAnswered => qa.retrieved = Take(rop.ranking, AnswerK)
        /\ (Len(qa.calls) = 2 /\ qa.err # "") =>
              /\ qa.sources = <<>>
              /\ qa.retrieved = <<>>
              /\ "search" \notin Range(qa.calls)

\* A call whose load finds no directory, made on a QAChain whose retriever
\* still holds the index an earlier call loaded for another heading.
C13_Witness ==
    /\ qa.outcome = "returned"
    /\ qa.err = "FileNotFoundError"
    /\ vectorstore # None
    /\ vectorstore[1].dir # HeadingDir(qa.selected)
    /\ qa.sources = <<>>

\* The positions, in the search's answer, of the chunks that pass the filter.
Survivors == {j \in DOMAIN qa.retrieved : qa.retrieved[j][2] >= score_threshold}

\* The position in the search's answer of the n-th chunk that passes the filter.
NthSurvivor(n) ==
    CHOOSE j \in Survivors : Cardinality({m \in Survivors : m <= j}) = n

\* C14: on the path that reaches the generation call and returns, the sources
\* list the chunks that passed the filter in the order the search gave them,
\* one entry per chunk, each entry the first 200 characters of the chunk's
\* content; the search was asked for the top 8, so there are at most 8 entries.
C14_SourcesListSurvivors ==
    (qa.outcome = "returned" /\ "generate" \in Range(qa.calls)) =>
        /\ qa.retrieved = SubSeq(rop.ranking, 1, Min(8, Len(rop.ranking)))
        /\ Len(qa.sources) = Cardinality(Survivors)
        /\ Len(qa.sources) <= 8
        /\ \A n \in DOMAIN qa.sources :
              LET content == qa.retrieved[NthSurvivor(n)][1].content
              IN  qa.sources[n] = SubSeq(content, 1, Min(200, Len(content)))

\* The index holds nine chunks, all of them score above the threshold, and
\* eight sources come back.
C14_Witness ==
    /\ qa.outcome = "returned"
    /\ Len(rop.ranking) = 9
    /\ \A j \in DOMAIN rop.ranking : rop.ranking[j][2] >= score_threshold
    /\ Len(qa.sources) = 8

\* The external calls of answer_query, in the order of its code.
CallOrder == <<"select", "load", "search", "generate">>

\* The call that a failure belongs to.
FailingCall(failure) ==
    IF failure = "SelectError" THEN "select"
    ELSE IF failure \in {"LoadError", "FileNotFoundError"} THEN "load"
    ELSE IF failure \in {"SearchError", "RuntimeError"} THEN "search"
    ELSE "generate"

\* C17: the external calls of one answer_query are a prefix of heading
\* selection, index load, similarity search, answer generation: in that order,
\* each at most once, none retried. A failure of the selection, of the search,
\* of the generation, or of the load other than the missing index, ends the
\* call at the failing call and propagates: no result is returned.
C17_CallsInOrderFailuresPropagate ==
    qa # NoCall =>
        /\ IsPrefix(qa.calls, CallOrder)
        /\ qa.calls # <<>>
        /\ qa.err \notin {"", "FileNotFoundError"} =>
              /\ qa.outcome = "raised"
              /\ qa.calls[Len(qa.calls)] = FailingCall(qa.err)
              /\ qa.heading = <<>> /\ qa.answer = <<>> /\ qa.sources = <<>>
        /\ qa.outcome = "raised" => qa.err \notin {"", "FileNotFoundError"}

\* The generation call failed after the three calls before it had succeeded.
C17_Witness ==
    /\ qa.calls = CallOrder
    /\ qa.err = "GenerateError"
    /\ qa.outcome = "raised"
    /\ qa.kept # <<>>

---------------------------------------------------------------------------
(* Properties of DocumentHandler.load_and_split, checked under SpecLoad *)

\* C16: every chunk load_and_split emits has a content that is not empty once
\* trimmed, and a section whose flushed text is empty produces no chunk.
C16_NoEmptyChunk ==
    /\ \A j \in DOMAIN final_chunks : Strip(final_chunks[j].content) # <<>>
    /\ lpc = "done" =>
          \A s \in DOMAIN sections :
              sections[s].text = <<>> =>
                  \A j \in DOMAIN final_chunks : final_chunks[j].sec # s

\* The text held a section of blank lines only, and a section with a body:
\* the call returned chunks for the second one only.
C16_Witness ==
    /\ lpc = "done"
    /\ \E s \in DOMAIN sections : sections[s].text = <<>>
    /\ \E s \in DOMAIN sections : sections[s].text # <<>>
    /\ final_chunks # <<>>

\* The numbers of the heading lines before line n.
HeadingLinesBefore(n) == {m \in 1..(n - 1) : IsHeadingLine(lines[m])}

\* The trimmed text of the nearest heading line before line n, if any.
NearestHeading(n) ==
    IF HeadingLinesBefore(n) = {} THEN None
    ELSE Some(Strip(lines[CHOOSE m \in HeadingLinesBefore(n) :
                              \A x \in HeadingLinesBefore(n) : x <= m]))

\* The text of the lines numbered in nos, joined and trimmed.
TextOfLines(nos) == Strip(JoinLines([j \in 1..Len(nos) |-> lines[nos[j]]]))

\* C18: the chunks come in the order their text is met in the input; each is
\* tagged with the trimmed text of the nearest heading line before its body
\* lines, or with no heading when there is none; body lines that a heading line
\* separates are never in the same chunk; the pieces of one section all carry
\* that section's heading.
C18_ChunksTaggedInOrder ==
    /\ \A s \in DOMAIN sections :
          /\ sections[s].text = TextOfLines(sections[s].from)
          /\ \A a \in DOMAIN sections[s].from :
                /\ ~IsHeadingLine(lines[sections[s].from[a]])
                /\ sections[s].heading = NearestHeading(sections[s].from[a])
                /\ \A b \in DOMAIN sections[s].from :
                      a < b => /\ sections[s].from[a] < sections[s].from[b]
                               /\ \A m \in (sections[s].from[a] + 1)..(sections[s].from[b] - 1) :
                                     ~IsHeadingLine(lines[m])
          /\ \A t \in DOMAIN sections :
                s < t => \A a \in DOMAIN sections[s].from, b \in DOMAIN sections[t].from :
                            sections[s].from[a] < sections[t].from[b]
    /\ \A c \in DOMAIN final_chunks :
          /\ final_chunks[c].sec \in DOMAIN sections
          /\ final_chunks[c].heading = sections[final_chunks[c].sec].heading
          /\ Contains(sections[final_chunks[c].sec].text, final_chunks[c].content)
          /\ \A d \in DOMAIN final_chunks :
                c < d => final_chunks[c].sec <= final_chunks[d].sec

\* A body line before any heading, then a heading line with blanks around it,
\* then a body cut into two pieces: one chunk with no heading, two with the
\* trimmed heading.
C18_Witness ==
    /\ lpc = "done"
    /\ Len(final_chunks) = 3
    /\ final_chunks[1].heading = None
    /\ final_chunks[2].heading = Some(<<"A", "B", "1">>)
    /\ final_chunks[3].heading = Some(<<"A", "B", "1">>)
    /\ final_chunks[2].sec = final_chunks[3].sec

=============================================================================
